---- MODULE Spec2Model ----
(***************************************************************************)
(* Blink counting of SleepDebtPredictor: src/blink_counter.py.             *)
(*                                                                         *)
(* count_blinks_in_video is modelled as a state machine per invocation     *)
(* (Calls), one action per step of its body; calculate_ear_fast is a pure  *)
(* operator.  Spec runs one invocation on any video of Videos, SpecConc    *)
(* two invocations at once, SpecPair two runs on videos that agree up to   *)
(* the frame budget, SpecEar calculate_ear_fast on eyes of a grid,         *)
(* SpecLive one invocation whose steps are taken under weak fairness.      *)
(*                                                                         *)
(* Numbers.  Python floats are modelled in exact fixed point arithmetic:   *)
(* an eye aspect ratio (EAR) is an integer number of 1/10000 (0.30 is      *)
(* 3000), a threshold is an integer number of 1/10000 of that (EAR times   *)
(* Fine), so that 0.80 * median and 0.78 * mean are exact and the          *)
(* comparisons of the code are comparisons of integers.  Distances are in  *)
(* 1/100 pixel, rounded down.                                              *)
(***************************************************************************)
EXTENDS Integers, Sequences, FiniteSets, TLC

VARIABLES
    encoded_video,  \* per call: the argument, an encoding of its frames
    pc,             \* per call: the position in count_blinks_in_video
    st,             \* per call: the locals of lines 43-49
    cap,            \* per call: the capture handle (opened, frames read)
    temp_files,     \* the file system: the temporary files that exist
    result,         \* per call: what the call returned
    err,            \* per call: the failure that ended the call, if any
    log,            \* per call: the blinks printed at lines 178 and 186, with
                    \* the frame and the sample (face frame) they are on
    decision,       \* per call: the locals of lines 121-168 (avg_ear,
                    \* thresholds, reason) of the last frame with a face
    last_call,      \* the call that took the last step
    eye_in,         \* calculate_ear_fast: the 6 eye points given
    ear_out,        \* calculate_ear_fast: the value returned
    webcam,         \* quick_test: the frames that the webcam yields
    quick_pc,       \* quick_test: the position in its body
    quick,          \* quick_test: the locals of lines 293-298
    quick_log       \* quick_test: the blinks printed at line 363

vars == <<encoded_video, pc, st, cap, temp_files, result, err, log,
          decision, last_call, eye_in, ear_out, webcam, quick_pc, quick,
          quick_log>>

callVars ==
    <<encoded_video, pc, st, cap, temp_files, result, err, log, decision, last_call>>

earVars == <<eye_in, ear_out>>

quickVars == <<webcam, quick_pc, quick, quick_log>>

---------------------------------------------------------------------------
(* Program constants, in the units above.                                  *)

EAR_THRESHOLD == 3200

CONSECUTIVE_FRAMES == 1

FRAME_SKIP == 1

MAX_FRAMES == 450

INITIAL_LAST_EAR == 3000

BASELINE_WINDOW == 15

BASELINE_FACTOR == 8000

DYNAMIC_MIN == 2200

DYNAMIC_MAX == 3500

SUDDEN_DROP_THRESHOLD == 500

RUNNING_WINDOW == 10

RELATIVE_FACTOR == 7800

BLINK_COOLDOWN == 3

FALLBACK_EAR == 3000

\* One EAR unit in threshold units (1.0 is 10000 EAR units).
Fine == 10000

\* One pixel in distance units.
DistUnit == 100

---------------------------------------------------------------------------
(* Arithmetic.                                                             *)

Min(a, b) == IF a < b THEN a ELSE b

Max(a, b) == IF a > b THEN a ELSE b

\* The integer square root (rounded down).
RECURSIVE ISqrt(_)
ISqrt(n) ==
    IF n < 2 THEN n
    ELSE LET s == 2 * ISqrt(n \div 4)
         IN  IF (s + 1) * (s + 1) <= n THEN s + 1 ELSE s

\* scipy's dist.euclidean on two pixel positions, in distance units.
euclidean(p, q) ==
    ISqrt(DistUnit * DistUnit
          * ((p[1] - q[1]) * (p[1] - q[1]) + (p[2] - q[2]) * (p[2] - q[2])))

RECURSIVE SumSeq(_)
SumSeq(s) == IF s = <<>> THEN 0 ELSE Head(s) + SumSeq(Tail(s))

\* s[-n:] of Python.
LastN(s, n) == IF Len(s) <= n THEN s ELSE SubSeq(s, Len(s) - n + 1, Len(s))

\* The k-th smallest element of a sequence (k in 1..Len(s)).
KthSmallest(s, k) ==
    CHOOSE v \in {s[i] : i \in DOMAIN s} :
        /\ Cardinality({i \in DOMAIN s : s[i] < v}) < k
        /\ Cardinality({i \in DOMAIN s : s[i] <= v}) >= k

\* np.median, times 2 (the mean of the two middle elements of an even length).
Median2(s) ==
    IF Len(s) % 2 = 1
    THEN 2 * KthSmallest(s, (Len(s) + 1) \div 2)
    ELSE KthSmallest(s, Len(s) \div 2) + KthSmallest(s, Len(s) \div 2 + 1)

---------------------------------------------------------------------------
(* calculate_ear_fast (lines 214-241).  eye is the list `points`: 6 pixel  *)
(* positions, eye[1] being points[0].                                      *)

calculate_ear_fast_zero(eye) ==
    LET A == euclidean(eye[2], eye[6])
        B == euclidean(eye[3], eye[5])
        C == euclidean(eye[1], eye[4])
    IN  IF C = 0 THEN 0
        ELSE ((A + B) * Fine) \div (2 * C)

calculate_ear_fast_swapped(eye) ==
    LET A == euclidean(eye[2], eye[5])
        B == euclidean(eye[3], eye[6])
        C == euclidean(eye[1], eye[4])
    IN  IF C = 0 THEN FALLBACK_EAR
        ELSE ((A + B) * Fine) \div (2 * C)

calculate_ear_fast(eye) ==
    LET A == euclidean(eye[2], eye[6])
        B == euclidean(eye[3], eye[5])
        C == euclidean(eye[1], eye[4])
    IN  IF C = 0 THEN FALLBACK_EAR
        ELSE ((A + B) * Fine) \div (2 * C)

---------------------------------------------------------------------------
(* Frames.  A frame is what the loop body can observe of it: the number of *)
(* faces the detector finds, the 6 points of each eye of faces[0] that the *)
(* predictor returns, and whether processing it raises (before the face    *)
(* detection, lines 85-97, or in the landmark predictor, line 114).        *)

\* An eye 20 pixels wide whose lids are h pixels apart: EAR h/20.
EyeAt(h) == << <<0, 0>>, <<5, h>>, <<15, h>>, <<20, 0>>, <<15, 0>>, <<5, 0>> >>

\* An eye whose corners coincide.
DegenerateEye == << <<0, 0>>, <<5, 6>>, <<15, 6>>, <<0, 0>>, <<15, 0>>, <<5, 0>> >>

Frame(n, r, l, e) == [faces |-> n, raises |-> r, left |-> l, right |-> e]

Face(h) == Frame(1, "none", EyeAt(h), EyeAt(h))

\* An eye 40 wide whose lids are h apart (EAR h/40), and a face with it.
WideEyeAt(h) == << <<0, 0>>, <<10, h>>, <<30, h>>, <<40, 0>>, <<30, 0>>, <<10, 0>> >>

WideFace(h) == Frame(1, "none", WideEyeAt(h), WideEyeAt(h))

\* An eye 200 wide whose lids are h apart (EAR h/200), and a face with it.
FineEyeAt(h) == << <<0, 0>>, <<50, h>>, <<150, h>>, <<200, 0>>, <<150, 0>>, <<50, 0>> >>

FineFace(h) == Frame(1, "none", FineEyeAt(h), FineEyeAt(h))

NoFace == Frame(0, "none", EyeAt(0), EyeAt(0))

TwoFaces(h) == Frame(2, "none", EyeAt(h), EyeAt(h))

DegenerateFace == Frame(1, "none", DegenerateEye, DegenerateEye)

BadFrame == Frame(0, "frame", EyeAt(0), EyeAt(0))

BadLandmarks == Frame(1, "landmarks", EyeAt(0), EyeAt(0))

---------------------------------------------------------------------------
(* The locals of count_blinks_in_video (lines 43-49).                      *)

InitLocals ==
    [ blink_count |-> 0,
      frame_count |-> 0,
      consecutive_below_threshold |-> 0,
      faces_detected |-> FALSE,
      ear_history |-> <<>>,
      last_ear |-> INITIAL_LAST_EAR,
      blink_cooldown |-> 0 ]

\* avg_ear < threshold (the threshold in threshold units).
Below(avg_ear, threshold) == avg_ear * Fine < threshold

\* Lines 126-133, on the history that already holds the frame's sample.
DynamicThresholdUnclamped(ear_history) ==
    IF Len(ear_history) > BASELINE_WINDOW
    THEN (Median2(LastN(ear_history, BASELINE_WINDOW)) * BASELINE_FACTOR) \div 2
    ELSE EAR_THRESHOLD * Fine

DynamicThresholdEarlier(ear_history) ==
    LET earlier == SubSeq(ear_history, 1, Len(ear_history) - 1)
    IN  IF Len(earlier) > BASELINE_WINDOW
        THEN Min(Max((Median2(LastN(earlier, BASELINE_WINDOW)) * BASELINE_FACTOR) \div 2,
                     DYNAMIC_MIN * Fine),
                 DYNAMIC_MAX * Fine)
        ELSE EAR_THRESHOLD * Fine

DynamicThreshold(ear_history) ==
    IF Len(ear_history) > BASELINE_WINDOW
    THEN LET baseline_ear2 == Median2(LastN(ear_history, BASELINE_WINDOW))
         IN  Min(Max((baseline_ear2 * BASELINE_FACTOR) \div 2, DYNAMIC_MIN * Fine),
                 DYNAMIC_MAX * Fine)
    ELSE EAR_THRESHOLD * Fine

\* Lines 139-144.
RelativeThreshold(ear_history) ==
    IF Len(ear_history) > RUNNING_WINDOW
    THEN (SumSeq(LastN(ear_history, RUNNING_WINDOW)) * RELATIVE_FACTOR)
             \div RUNNING_WINDOW
    ELSE DynamicThreshold(ear_history)

\* Line 136.
EarDrop(last_ear, avg_ear) == IF last_ear > 0 THEN last_ear - avg_ear ELSE 0

\* Lines 146-148.
ReduceCooldownByTwo(blink_cooldown) ==
    IF blink_cooldown > 1 THEN blink_cooldown - 2 ELSE 0

ReduceCooldownStuck(blink_cooldown) == blink_cooldown

ReduceCooldown(blink_cooldown) ==
    IF blink_cooldown > 0 THEN blink_cooldown - 1 ELSE blink_cooldown

\* Lines 150-168: which criterion of the if/elif chain flags the frame
\* ("" when none does).  cooldown is the counter after lines 146-148,
\* consecutive the counter after line 155.
CriterionDropFirst(avg_ear, dynamic_threshold, relative_threshold, ear_drop, cooldown, consecutive) ==
    IF ear_drop > SUDDEN_DROP_THRESHOLD /\ cooldown = 0
    THEN "Sudden drop"
    ELSE IF Below(avg_ear, dynamic_threshold) /\ cooldown = 0
    THEN IF consecutive >= CONSECUTIVE_FRAMES THEN "Dynamic" ELSE ""
    ELSE IF Below(avg_ear, relative_threshold) /\ cooldown = 0
    THEN "Relative"
    ELSE ""

CriterionRelativeFirst(avg_ear, dynamic_threshold, relative_threshold, ear_drop, cooldown, consecutive) ==
    IF Below(avg_ear, relative_threshold) /\ cooldown = 0
    THEN "Relative"
    ELSE IF Below(avg_ear, dynamic_threshold) /\ cooldown = 0
    THEN IF consecutive >= CONSECUTIVE_FRAMES THEN "Dynamic" ELSE ""
    ELSE IF ear_drop > SUDDEN_DROP_THRESHOLD /\ cooldown = 0
    THEN "Sudden drop"
    ELSE ""

CriterionTwoFrames(avg_ear, dynamic_threshold, relative_threshold, ear_drop, cooldown, consecutive) ==
    IF Below(avg_ear, dynamic_threshold) /\ cooldown = 0
    THEN IF consecutive >= 2 THEN "Dynamic" ELSE ""
    ELSE IF ear_drop > SUDDEN_DROP_THRESHOLD /\ cooldown = 0
    THEN "Sudden drop"
    ELSE IF Below(avg_ear, relative_threshold) /\ cooldown = 0
    THEN "Relative"
    ELSE ""

Criterion(avg_ear, dynamic_threshold, relative_threshold, ear_drop, cooldown, consecutive) ==
    IF Below(avg_ear, dynamic_threshold) /\ cooldown = 0
    THEN IF consecutive >= CONSECUTIVE_FRAMES THEN "Dynamic" ELSE ""
    ELSE IF ear_drop > SUDDEN_DROP_THRESHOLD /\ cooldown = 0
    THEN "Sudden drop"
    ELSE IF Below(avg_ear, relative_threshold) /\ cooldown = 0
    THEN "Relative"
    ELSE ""

\* Line 171: the sample is at or above every threshold.
AboveDynamic(avg_ear, dynamic_threshold, relative_threshold) ==
    ~Below(avg_ear, dynamic_threshold)

AboveAll(avg_ear, dynamic_threshold, relative_threshold) ==
    ~Below(avg_ear, dynamic_threshold) /\ ~Below(avg_ear, relative_threshold)

\* Line 102.
SeeFaceStale(faces_detected) == faces_detected

SeeFace(faces_detected) == TRUE

\* Lines 117-121.
AvgEar(frame) ==
    (calculate_ear_fast(frame.left) + calculate_ear_fast(frame.right)) \div 2

\* Lines 120-181: the blink decision on a frame with a face.  The result
\* holds the new locals and the reason printed at line 178.
Decide(s, frame) ==
    LET avg_ear == AvgEar(frame)
        ear_history == Append(s.ear_history, avg_ear)
        dynamic_threshold == DynamicThreshold(ear_history)
        ear_drop == EarDrop(s.last_ear, avg_ear)
        relative_threshold == RelativeThreshold(ear_history)
        cooldown == ReduceCooldown(s.blink_cooldown)
        consecutive ==
            IF Below(avg_ear, dynamic_threshold) /\ cooldown = 0
            THEN s.consecutive_below_threshold + 1
            ELSE s.consecutive_below_threshold
        reason == Criterion(avg_ear, dynamic_threshold, relative_threshold,
                            ear_drop, cooldown, consecutive)
        blink_detected == reason # ""
    IN  [ locals |->
            [ blink_count |->
                  IF blink_detected THEN s.blink_count + 1 ELSE s.blink_count,
              frame_count |-> s.frame_count,
              consecutive_below_threshold |->
                  IF AboveAll(avg_ear, dynamic_threshold, relative_threshold)
                  THEN 0 ELSE consecutive,
              faces_detected |-> s.faces_detected,
              ear_history |-> ear_history,
              last_ear |-> avg_ear,
              blink_cooldown |->
                  IF blink_detected THEN BLINK_COOLDOWN ELSE cooldown ],
          reason |-> reason,
          body |->
            [ frame |-> s.frame_count,
              avg_ear |-> avg_ear,
              dynamic_threshold |-> dynamic_threshold,
              relative_threshold |-> relative_threshold,
              ear_drop |-> ear_drop,
              cooldown |-> cooldown,
              reason |-> reason ] ]

\* Lines 99-100: no face in the frame, the body goes on to the next frame.
SkipFrameTicking(counted) == [counted EXCEPT !.blink_cooldown = ReduceCooldown(@)]

SkipFrame(counted) == counted

\* Lines 78-181: one pass of the loop body over a frame that was read.
\* raised says that the body raised; the locals are those at that point;
\* body holds the locals of lines 121-168 when the pass reached them.
ProcessFrame(s, frame) ==
    LET counted == [s EXCEPT !.frame_count = @ + 1]
        seen == [counted EXCEPT !.faces_detected = SeeFace(@)]
    IN  IF counted.frame_count % FRAME_SKIP # 0
        THEN [locals |-> counted, raised |-> FALSE, reason |-> "", body |-> <<>>]
        ELSE IF frame.raises = "frame"
        THEN [locals |-> counted, raised |-> TRUE, reason |-> "", body |-> <<>>]
        ELSE IF frame.faces = 0
        THEN [locals |-> SkipFrame(counted), raised |-> FALSE, reason |-> "",
              body |-> <<>>]
        ELSE IF frame.raises = "landmarks"
        THEN [locals |-> seen, raised |-> TRUE, reason |-> "", body |-> <<>>]
        ELSE LET d == Decide(seen, frame)
             IN  [locals |-> d.locals, raised |-> FALSE, reason |-> d.reason,
                  body |-> <<d.body>>]

---------------------------------------------------------------------------
(* Inputs.                                                                 *)

\* The two invocations that may run at once.
Calls == {1, 2}

\* Bounds of the inputs.
MaxShort == 3

WarmLen == 20

MaxDrops == 4

MaxGap == 4

MaxTail == 2

MaxExtra == 1

MaxRamp == 12

MaxConc == 1

Repeat(f, n) == [i \in 1..n |-> f]

SeqsUpTo(S, n) == UNION {[1..k -> S] : k \in 0..n}

\* The frame of a video of MAX_FRAMES frames that blinks every 50th frame
\* ("blinky", "endless"), or never ("open").
LongFrame(kind, i) == IF kind # "open" /\ i % 50 = 0 THEN Face(3) ELSE Face(7)

\* An encoded video: the frames it decodes to are MAX_FRAMES frames of the
\* kind `prefix` (none when prefix is "none"), then the frames listed.  The
\* prefix "endless" is a stream whose frames never run out.
Video(prefix, frames) == [prefix |-> prefix, frames |-> frames]

Endless(e) == e.prefix = "endless"

PrefixLen(e) == IF e.prefix = "none" THEN 0 ELSE MAX_FRAMES

\* CAP_PROP_FRAME_COUNT (of a stream that ends).
NumFrames(e) == PrefixLen(e) + Len(e.frames)

\* Line 74: cap.read() on the i-th read: ret, and the frame it yields.
HasFrame(e, i) == Endless(e) \/ i <= NumFrames(e)

FrameAt(e, i) ==
    IF Endless(e) \/ i <= PrefixLen(e) THEN LongFrame(e.prefix, i)
    ELSE e.frames[i - PrefixLen(e)]

\* Every video of at most MaxShort frames over these frames.
ShortFrames ==
    {Face(7), Face(3), NoFace, TwoFaces(6), DegenerateFace, BadFrame, BadLandmarks}

ShortVideos == {Video("none", f) : f \in SeqsUpTo(ShortFrames, MaxShort)}

\* A stable baseline (lids b apart) of WarmLen frames, a drop (lids d
\* apart), then one more drop gaps[i] frames after the previous one for
\* every i, then t baseline frames.
RECURSIVE MoreDrops(_, _, _)
MoreDrops(b, d, gaps) ==
    IF gaps = <<>> THEN <<>>
    ELSE Repeat(Face(b), Head(gaps) - 1) \o <<Face(d)>> \o MoreDrops(b, d, Tail(gaps))

Scenario(b, d, gaps, t) ==
    Video("none", Repeat(Face(b), WarmLen) \o <<Face(d)>> \o MoreDrops(b, d, gaps)
                      \o Repeat(Face(b), t))

Baselines == {6, 7}

GapSeqs == SeqsUpTo(1..MaxGap, MaxDrops - 1)

ScenarioVideos ==
    {Scenario(b, 3, gaps, t) : b \in Baselines, gaps \in GapSeqs, t \in 1..MaxTail}

\* A baseline of EAR 0.60 of WarmLen frames, then n frames on which the
\* lids close by step/40 a frame.
Ramp(step, n) ==
    Video("none", Repeat(WideFace(24), WarmLen)
                      \o [i \in 1..n |-> WideFace(Max(24 - step * i, 0))])

RampVideos == {Ramp(step, n) : step \in {1, 3}, n \in 1..MaxRamp}

\* Eyes that stay nearly closed for WarmLen frames.
SteadyVideos == {Video("none", Repeat(Face(h), WarmLen)) : h \in {3, 5}}

\* Wide open eyes (EAR 0.60) on the first frame, lids h/40 apart on the
\* second.
EarlyDropVideos == {Video("none", <<WideFace(24), WideFace(h)>>) : h \in {12, 14, 23}}

\* A baseline of EAR 0.60 of WarmLen frames, a sample of 0.30, then a
\* sample of h/40.
DipVideos ==
    {Video("none", Repeat(WideFace(24), WarmLen) \o <<WideFace(12), WideFace(h)>>) :
        h \in {15, 24}}

\* Closed eyes on 4 frames with a face, with up to 2 frames without a
\* face after the first of them.
PauseVideos ==
    {Video("none", <<Face(3)>> \o Repeat(NoFace, k) \o Repeat(Face(3), 3)) : k \in 0..2}

\* A stream whose frames never run out.
EndlessVideos == {Video("endless", <<>>)}

ExtraFrames == {Face(3), BadFrame}

\* Videos that fill the frame budget: MAX_FRAMES frames and up to MaxExtra
\* more.
LongVideos ==
    {Video(kind, extra) :
        kind \in {"open", "blinky"}, extra \in SeqsUpTo(ExtraFrames, MaxExtra)}

Videos ==
    ShortVideos \cup ScenarioVideos \cup RampVideos \cup SteadyVideos
        \cup EarlyDropVideos \cup DipVideos \cup PauseVideos \cup LongVideos \cup EndlessVideos

\* The videos of two invocations that run at once.
ConcVideos ==
    {Video("none", f) : f \in SeqsUpTo({Face(7), Face(3), NoFace, BadFrame}, MaxConc)}

---------------------------------------------------------------------------
(* count_blinks_in_video, step by step, for the invocation c.              *)

Closed == [opened |-> FALSE, released |-> FALSE, pos |-> 0]

\* The invocation returns v (lines 34, 64, 196, 207, 211) or lets an
\* exception escape.
Return(c, v, kind) ==
    /\ pc' = [pc EXCEPT ![c] = "done"]
    /\ result' = [result EXCEPT ![c] = v]
    /\ err' = [err EXCEPT ![c] = kind]

Escape(c, kind) ==
    /\ pc' = [pc EXCEPT ![c] = "raised"]
    /\ err' = [err EXCEPT ![c] = kind]
    /\ UNCHANGED result

Goto(c, where) ==
    /\ pc' = [pc EXCEPT ![c] = where]
    /\ UNCHANGED <<result, err>>

\* Lines 209-211: what the except clause returns.
ExceptionResultCount(s) == s.blink_count

ExceptionResult(s) == 0

\* Lines 22-25: the face detector is constructed outside any try.
Construct(c) ==
    /\ pc[c] = "start"
    /\ last_call' = c
    /\ \E ok \in BOOLEAN :
          IF ok THEN Goto(c, "load") ELSE Escape(c, "detector")
    /\ UNCHANGED <<encoded_video, st, cap, temp_files, log, decision, earVars, quickVars>>

\* Lines 28-49: the landmark model is loaded; only RuntimeError is caught.
LoadPredictor(c) ==
    /\ pc[c] = "load"
    /\ last_call' = c
    /\ \E outcome \in {"ok", "RuntimeError", "Exception"} :
          CASE outcome = "ok" ->
                 /\ Goto(c, "decode")
                 /\ st' = [st EXCEPT ![c] = InitLocals]
            [] outcome = "RuntimeError" ->
                 /\ Return(c, 0, "model")
                 /\ UNCHANGED st
            [] OTHER ->
                 /\ Escape(c, "model")
                 /\ UNCHANGED st
    /\ UNCHANGED <<encoded_video, cap, temp_files, log, decision, earVars, quickVars>>

\* Line 53: base64.b64decode.
Decode(c) ==
    /\ pc[c] = "decode"
    /\ last_call' = c
    /\ \E ok \in BOOLEAN :
          IF ok THEN Goto(c, "tempfile")
          ELSE Return(c, ExceptionResult(st[c]), "decode")
    /\ UNCHANGED <<encoded_video, st, cap, temp_files, log, decision, earVars, quickVars>>

\* Lines 55-57: the name tempfile.NamedTemporaryFile gives the file of the
\* invocation c: a fresh one for every invocation.
TempPathFixed(c) == 1

TempPath(c) == c

\* Lines 55-57: the temporary file (delete=False) is created and written.
WriteTemp(c) ==
    /\ pc[c] = "tempfile"
    /\ last_call' = c
    /\ \E outcome \in {"ok", "create fails", "write fails"} :
          CASE outcome = "ok" ->
                 /\ Goto(c, "open")
                 /\ temp_files' = temp_files \cup {TempPath(c)}
            [] outcome = "write fails" ->
                 /\ Return(c, ExceptionResult(st[c]), "tempfile")
                 /\ temp_files' = temp_files \cup {TempPath(c)}
            [] OTHER ->
                 /\ Return(c, ExceptionResult(st[c]), "tempfile")
                 /\ UNCHANGED temp_files
    /\ UNCHANGED <<encoded_video, st, cap, log, decision, earVars, quickVars>>

\* Lines 60-70.
OpenCapture(c) ==
    /\ pc[c] = "open"
    /\ last_call' = c
    /\ \E opened \in BOOLEAN :
          IF opened
          THEN /\ Goto(c, "loop")
               /\ cap' = [cap EXCEPT ![c].opened = TRUE]
          ELSE /\ Return(c, 0, "open")
               /\ UNCHANGED cap
    /\ UNCHANGED <<encoded_video, st, temp_files, log, decision, earVars, quickVars>>

\* Line 75, after the read of line 74.
LoopExitNoCap(ret, frame_count) == ~ret

LoopExitLate(ret, frame_count) == ~ret \/ frame_count > MAX_FRAMES

LoopExit(ret, frame_count) == ~ret \/ frame_count >= MAX_FRAMES

\* Lines 73-181: one iteration of the frame loop.
LoopIteration(c) ==
    /\ pc[c] = "loop"
    /\ last_call' = c
    /\ LET ret == HasFrame(encoded_video[c], cap[c].pos + 1)
           frame == FrameAt(encoded_video[c], cap[c].pos + 1)
       IN  /\ cap' = [cap EXCEPT ![c].pos = IF ret THEN @ + 1 ELSE @]
           /\ IF LoopExit(ret, st[c].frame_count)
              THEN /\ Goto(c, "final")
                   /\ UNCHANGED <<st, log, decision>>
              ELSE LET p == ProcessFrame(st[c], frame)
                   IN  /\ st' = [st EXCEPT ![c] = p.locals]
                       /\ log' = IF p.reason = "" THEN log
                                 ELSE [log EXCEPT ![c] = Append(@,
                                          [frame |-> p.locals.frame_count,
                                           sample |-> Len(p.locals.ear_history),
                                           reason |-> p.reason])]
                       /\ decision' = IF p.body = <<>> THEN decision
                                      ELSE [decision EXCEPT ![c] = p.body[1]]
                       /\ IF p.raised
                          THEN Return(c, ExceptionResult(p.locals), "frame")
                          ELSE Goto(c, "loop")
    /\ UNCHANGED <<encoded_video, temp_files, earVars, quickVars>>

\* Line 184: the test for a blink in progress at the end of the video.
TrailingBlinkAnyCooldown(s) == s.consecutive_below_threshold >= CONSECUTIVE_FRAMES

TrailingBlink(s) ==
    /\ s.consecutive_below_threshold >= CONSECUTIVE_FRAMES
    /\ s.blink_cooldown = 0

\* Lines 183-186: the blink in progress at the end of the video.
EndOfStream(c) ==
    /\ pc[c] = "final"
    /\ last_call' = c
    /\ IF TrailingBlink(st[c])
       THEN /\ st' = [st EXCEPT ![c].blink_count = @ + 1]
            /\ log' = [log EXCEPT ![c] = Append(@,
                          [frame |-> st[c].frame_count,
                           sample |-> Len(st[c].ear_history), reason |-> "Final"])]
       ELSE UNCHANGED <<st, log>>
    /\ Goto(c, "cleanup")
    /\ UNCHANGED <<encoded_video, cap, temp_files, decision, earVars, quickVars>>

\* Lines 194-207: the value returned after the cleanup.
ReturnValue(s) == IF ~s.faces_detected THEN 0 ELSE s.blink_count

\* Lines 188-207: release the capture, delete the file, return the count.
Cleanup(c) ==
    /\ pc[c] = "cleanup"
    /\ last_call' = c
    /\ \E outcome \in {"ok", "release fails", "unlink fails"} :
          CASE outcome = "ok" ->
                 /\ cap' = [cap EXCEPT ![c].released = TRUE]
                 /\ temp_files' = temp_files \ {TempPath(c)}
                 /\ Return(c, ReturnValue(st[c]), "none")
            [] outcome = "unlink fails" ->
                 /\ cap' = [cap EXCEPT ![c].released = TRUE]
                 /\ UNCHANGED temp_files
                 /\ Return(c, ExceptionResult(st[c]), "cleanup")
            [] OTHER ->
                 /\ UNCHANGED <<cap, temp_files>>
                 /\ Return(c, ExceptionResult(st[c]), "cleanup")
    /\ UNCHANGED <<encoded_video, st, log, decision, earVars, quickVars>>

Step(c) ==
    \/ Construct(c)
    \/ LoadPredictor(c)
    \/ Decode(c)
    \/ WriteTemp(c)
    \/ OpenCapture(c)
    \/ LoopIteration(c)
    \/ EndOfStream(c)
    \/ Cleanup(c)

---------------------------------------------------------------------------
(* quick_test (lines 274-385): the interactive variant, on the frames of   *)
(* the webcam.  The faces of a frame all show the eyes of faces[0].        *)

QUICK_LAST_EAR == 3000

QUICK_WINDOW == 30

QUICK_BASELINE_MIN == 10

QUICK_FACTOR == 8000

QUICK_MIN == 2200

QUICK_MAX == 3500

QUICK_THRESHOLD == 3200

QUICK_DROP == 400

QUICK_COOLDOWN == 3

\* Lines 293-298.
QuickInitLocals ==
    [ blink_count |-> 0,
      consecutive_below_threshold |-> 0,
      frame_count |-> 0,
      ear_history |-> <<>>,
      last_ear |-> QUICK_LAST_EAR,
      blink_cooldown |-> 0 ]

\* Lines 324-326: append, then drop the oldest sample beyond the window.
QuickHistory(ear_history, avg_ear) == LastN(Append(ear_history, avg_ear), QUICK_WINDOW)

\* Lines 329-335, on the window that already holds the frame's sample.
QuickDynamicThresholdEarly(ear_history) ==
    IF Len(ear_history) > 5
    THEN Min(Max((Median2(ear_history) * QUICK_FACTOR) \div 2, QUICK_MIN * Fine),
             QUICK_MAX * Fine)
    ELSE QUICK_THRESHOLD * Fine

QuickDynamicThreshold(ear_history) ==
    IF Len(ear_history) > QUICK_BASELINE_MIN
    THEN Min(Max((Median2(ear_history) * QUICK_FACTOR) \div 2, QUICK_MIN * Fine),
             QUICK_MAX * Fine)
    ELSE QUICK_THRESHOLD * Fine

\* Lines 348-355: which branch flags the sample ("" when none does).
QuickCriterion(avg_ear, dynamic_threshold, ear_drop, cooldown, consecutive) ==
    IF Below(avg_ear, dynamic_threshold) /\ cooldown = 0
    THEN IF consecutive >= 1 THEN "Threshold" ELSE ""
    ELSE IF ear_drop > QUICK_DROP /\ cooldown = 0 THEN "Drop"
    ELSE ""

\* Lines 318-376: the body of `for face in faces` on one face.
QuickDecide(s, frame) ==
    LET avg_ear == AvgEar(frame)
        ear_history == QuickHistory(s.ear_history, avg_ear)
        dynamic_threshold == QuickDynamicThreshold(ear_history)
        ear_drop == EarDrop(s.last_ear, avg_ear)
        cooldown == ReduceCooldown(s.blink_cooldown)
        consecutive ==
            IF Below(avg_ear, dynamic_threshold) /\ cooldown = 0
            THEN s.consecutive_below_threshold + 1
            ELSE s.consecutive_below_threshold
        reason == QuickCriterion(avg_ear, dynamic_threshold, ear_drop, cooldown,
                                 consecutive)
    IN  [ locals |->
            [ blink_count |->
                  IF reason # "" THEN s.blink_count + 1 ELSE s.blink_count,
              consecutive_below_threshold |->
                  IF ~Below(avg_ear, dynamic_threshold) THEN 0 ELSE consecutive,
              frame_count |-> s.frame_count,
              ear_history |-> ear_history,
              last_ear |-> avg_ear,
              blink_cooldown |->
                  IF reason # "" THEN QUICK_COOLDOWN ELSE cooldown ],
          reason |-> reason ]

\* Lines 317-376: the loop over the n faces of the frame that are left;
\* flagged collects the blinks printed.
RECURSIVE QuickFaces(_, _, _, _)
QuickFaces(s, frame, n, flagged) ==
    IF n = 0 THEN [locals |-> s, flagged |-> flagged]
    ELSE LET d == QuickDecide(s, frame)
         IN  QuickFaces(d.locals, frame, n - 1,
                        IF d.reason = "" THEN flagged
                        ELSE Append(flagged, [frame |-> s.frame_count,
                                              sample |-> Len(d.locals.ear_history),
                                              reason |-> d.reason]))

\* Lines 281-298: the webcam is opened and the landmark model loaded.
QuickSetup ==
    /\ quick_pc = "start"
    /\ \E outcome \in {"ok", "no webcam", "no model"} :
          IF outcome = "ok"
          THEN quick_pc' = "loop" /\ quick' = QuickInitLocals
          ELSE quick_pc' = "done" /\ UNCHANGED quick
    /\ UNCHANGED <<webcam, quick_log, callVars, earVars>>

\* Lines 300-381: one iteration of the loop; nothing catches what the
\* processing of a frame raises; the key q ends the loop.
QuickIteration ==
    /\ quick_pc = "loop"
    /\ IF ~HasFrame(webcam, quick.frame_count + 1)
       THEN quick_pc' = "release" /\ UNCHANGED <<quick, quick_log>>
       ELSE LET frame == FrameAt(webcam, quick.frame_count + 1)
                counted == [quick EXCEPT !.frame_count = @ + 1]
            IN  IF frame.raises # "none"
                THEN /\ quick_pc' = "raised"
                     /\ quick' = counted
                     /\ UNCHANGED quick_log
                ELSE LET f == QuickFaces(counted, frame, frame.faces, <<>>)
                     IN  /\ quick' = f.locals
                         /\ quick_log' = quick_log \o f.flagged
                         /\ \E q \in BOOLEAN :
                               quick_pc' = IF q THEN "release" ELSE "loop"
    /\ UNCHANGED <<webcam, callVars, earVars>>

\* Lines 383-385.
QuickRelease ==
    /\ quick_pc = "release"
    /\ quick_pc' = "done"
    /\ UNCHANGED <<webcam, quick, quick_log, callVars, earVars>>

QuickStep ==
    \/ QuickSetup
    \/ QuickIteration
    \/ QuickRelease

---------------------------------------------------------------------------
(* Specifications.                                                         *)

NoEye == EyeAt(0)

\* The locals of the loop body before any frame with a face: unbound.
NoDecision ==
    [ frame |-> 0, avg_ear |-> 0, dynamic_threshold |-> 0,
      relative_threshold |-> 0, ear_drop |-> 0, cooldown |-> 0, reason |-> "" ]

InitCalls(videos) ==
    /\ encoded_video = videos
    /\ pc = [c \in Calls |-> "start"]
    /\ st = [c \in Calls |-> InitLocals]
    /\ cap = [c \in Calls |-> Closed]
    /\ temp_files = {}
    /\ result = [c \in Calls |-> -1]
    /\ err = [c \in Calls |-> "none"]
    /\ log = [c \in Calls |-> <<>>]
    /\ decision = [c \in Calls |-> NoDecision]
    /\ last_call = 0

\* One invocation, on any video.
InitNoEar == eye_in = NoEye /\ ear_out = -1

\* quick_test before it runs, on the webcam frames w.
InitQuickOn(w) ==
    /\ webcam = w
    /\ quick_pc = "start"
    /\ quick = QuickInitLocals
    /\ quick_log = <<>>

InitNoQuick == InitQuickOn(Video("none", <<>>))

Init ==
    /\ \E v \in Videos :
          InitCalls([c \in Calls |-> IF c = 1 THEN v ELSE Video("none", <<>>)])
    /\ InitNoEar
    /\ InitNoQuick

Next == Step(1)

Spec == Init /\ [][Next]_vars

\* One invocation that keeps running until it returns or raises: the body
\* is straight-line synchronous code, no step of it waits for anything.
LiveVideos == ShortVideos \cup LongVideos \cup EndlessVideos

InitLive ==
    /\ \E v \in LiveVideos :
          InitCalls([c \in Calls |-> IF c = 1 THEN v ELSE Video("none", <<>>)])
    /\ InitNoEar
    /\ InitNoQuick

\* The steps outside the frame loop.
Straight(c) ==
    \/ Construct(c)
    \/ LoadPredictor(c)
    \/ Decode(c)
    \/ WriteTemp(c)
    \/ OpenCapture(c)
    \/ EndOfStream(c)
    \/ Cleanup(c)

\* Weak fairness of every step of the invocation.  For the iteration of
\* the loop it is written out: an iteration is enabled exactly when the
\* invocation is at the loop, and every iteration reads a frame or leaves
\* the loop.
KeepsRunning ==
    /\ WF_vars(Straight(1))
    /\ ([]<>(pc[1] # "loop") \/ []<><<LoopIteration(1)>>_vars)

SpecLive == InitLive /\ [][Next]_vars /\ KeepsRunning

\* Two invocations at once, in any interleaving of their steps.
InitConc ==
    \E v1 \in ConcVideos, v2 \in ConcVideos :
        /\ InitCalls([c \in Calls |-> IF c = 1 THEN v1 ELSE v2])
        /\ InitNoEar
        /\ InitNoQuick

NextConc == \E c \in Calls : Step(c)

SpecConc == InitConc /\ [][NextConc]_vars

\* Two runs side by side: one on a video that fills the frame budget
\* exactly, one on the same video with more frames after it.  The runs take
\* turns until one of them has ended.
Ended(c) == pc[c] \in {"done", "raised"}

Turn(c) == last_call # c \/ \A o \in Calls \ {c} : Ended(o)

InitPair ==
    \E kind \in {"open", "blinky"}, extra \in SeqsUpTo(ExtraFrames, MaxExtra) :
        /\ InitCalls([c \in Calls |->
                         IF c = 1 THEN Video(kind, <<>>) ELSE Video(kind, extra)])
        /\ InitNoEar
        /\ InitNoQuick

NextPair == \E c \in Calls : Turn(c) /\ Step(c)

SpecPair == InitPair /\ [][NextPair]_vars

\* The batch engine on a video, then quick_test on a webcam that yields the
\* frames of that video.
MaxQuick == 3

QuickFrames == {Face(7), Face(3), FineFace(76), FineFace(67), NoFace, TwoFaces(6), BadFrame}

\* Steady eyes below the fixed threshold, a blink followed by open eyes, and
\* a stream longer than the window of quick_test.
QuickLongVideos ==
    {Video("none", Repeat(Face(6), n)) : n \in {10, 11, 13}}
        \cup {Video("none", <<Face(7), FineFace(67), Face(3)>> \o Repeat(Face(7), 7)),
              Video("none", Repeat(Face(7), QUICK_WINDOW + 2))}

QuickVideos ==
    {Video("none", f) : f \in SeqsUpTo(QuickFrames, MaxQuick)} \cup QuickLongVideos

InitQuick ==
    \E v \in QuickVideos :
        /\ InitCalls([c \in Calls |-> IF c = 1 THEN v ELSE Video("none", <<>>)])
        /\ InitNoEar
        /\ InitQuickOn(v)

NextQuick ==
    \/ Step(1)
    \/ Ended(1) /\ QuickStep

SpecQuick == InitQuick /\ [][NextQuick]_vars

\* calculate_ear_fast on the eyes whose 6 points lie on a small grid.
MaxCoord == 1

Grid == (0..MaxCoord) \X (0..MaxCoord)

InitEar ==
    /\ InitCalls([c \in Calls |-> Video("none", <<>>)])
    /\ eye_in \in [1..6 -> Grid]
    /\ ear_out = -1
    /\ InitNoQuick

ComputeEar ==
    /\ ear_out = -1
    /\ ear_out' = calculate_ear_fast(eye_in)
    /\ UNCHANGED <<eye_in, callVars, quickVars>>

NextEar == ComputeEar

SpecEar == InitEar /\ [][NextEar]_vars

---------------------------------------------------------------------------
(* Claims.                                                                 *)

\* The invocation 1 ran to its end on the video v without any failure.
Completed(v) == pc[1] = "done" /\ err[1] = "none" /\ encoded_video[1] = v

\* The blinks flagged on the frames of the set F.
BlinksOn(F) == Cardinality({i \in DOMAIN log[1] : log[1][i].frame \in F})

\* C1: on 20 samples of 0.30, one of 0.15, then 0.30 again, the call
\* returns exactly 1.
C1_ExactlyOneBlink ==
    \A t \in 1..MaxTail : Completed(Scenario(6, 3, <<>>, t)) => result[1] = 1


\* The frames of the 3 drops of Scenario(b, d, <<g1, g2>>, t).
DropFrames(g1, g2) == {WarmLen + 1, WarmLen + 1 + g1, WarmLen + 1 + g1 + g2}

\* C2: 3 drops below the threshold within 3 frames of each other (the last
\* at most 3 frames after the first) on a stable open baseline register
\* exactly 1 blink.
C2_DebounceWithin3 ==
    \A b \in Baselines, g1 \in 1..MaxGap, g2 \in 1..MaxGap, t \in 1..MaxTail :
        (g1 + g2 <= 3 /\ Completed(Scenario(b, 3, <<g1, g2>>, t)))
            => BlinksOn(DropFrames(g1, g2)) = 1

\* C3: 3 single-sample drops, each more than 3 frames after the previous
\* one, on a stable open baseline: the call returns exactly 3.
C3_ThreeSpacedBlinks ==
    \A b \in Baselines, g1 \in 4..MaxGap, g2 \in 4..MaxGap, t \in 1..MaxTail :
        Completed(Scenario(b, 3, <<g1, g2>>, t)) => result[1] = 3

\* C4: whatever step fails, no exception escapes count_blinks_in_video and
\* the call returns an integer >= 0.
C4_Total ==
    \A c \in Calls : pc[c] # "raised" /\ (pc[c] = "done" => result[c] >= 0)

\* C5: a call ended by a missing landmark model, an undecodable input, a
\* stream that cannot be opened or an exception in the frame loop returns 0,
\* whatever blink count it had reached.
C5_ErrorReturnsZero ==
    \A c \in Calls :
        (pc[c] = "done" /\ err[c] \in {"model", "decode", "open", "frame"})
            => result[c] = 0

\* C5's case: blinks were counted, then a frame raised, and 0 is returned.
C5_Witness ==
    pc[1] = "done" /\ err[1] = "frame" /\ st[1].blink_count > 0 /\ result[1] = 0

\* A frame among the first n of the video e showed a face to the detector.
FaceAmong(e, n) ==
    \E i \in 1..n : FrameAt(e, i).raises # "frame" /\ FrameAt(e, i).faces > 0

FramesInBudget(e) == IF Endless(e) THEN MAX_FRAMES ELSE Min(NumFrames(e), MAX_FRAMES)

\* C6: a call on a video without any face within the frame budget returns
\* 0; faces_detected is true exactly when a processed frame has shown a
\* face, and once true it stays true.
C6_FaceFlag ==
    /\ [](\A c \in Calls :
            /\ (pc[c] = "done" /\ ~FaceAmong(encoded_video[c],
                                             FramesInBudget(encoded_video[c])))
                   => result[c] = 0
            /\ st[c].faces_detected
                   <=> FaceAmong(encoded_video[c], st[c].frame_count))
    /\ [][\A c \in Calls : st[c].faces_detected => st'[c].faces_detected]_vars

\* C6's case: a video with frames, none with a face, was run to its end.
C6_Witness ==
    /\ pc[1] = "done" /\ err[1] = "none" /\ result[1] = 0
    /\ NumFrames(encoded_video[1]) = MaxShort
    /\ ~FaceAmong(encoded_video[1], NumFrames(encoded_video[1]))

\* C7: two videos that agree on their first MAX_FRAMES frames give the same
\* result and the same rolling state (both are compared with the video cut
\* at MAX_FRAMES frames); no frame after the budget is processed.
C7_Truncation ==
    /\ \A c \in Calls : st[c].frame_count <= MAX_FRAMES
    /\ (pc[1] = "done" /\ pc[2] = "done" /\ err[1] = err[2])
           => (result[1] = result[2] /\ st[1] = st[2] /\ log[1] = log[2])

\* C7's case: the longer video, with frames after the budget, ran to its
\* end and returned the blinks of the first MAX_FRAMES frames.
C7_Witness ==
    /\ pc[1] = "done" /\ pc[2] = "done" /\ err[1] = "none" /\ err[2] = "none"
    /\ NumFrames(encoded_video[2]) > MAX_FRAMES
    /\ result[2] > 0 /\ result[1] = result[2]

\* The count the invocation returns when it runs alone on the video e and
\* nothing but a frame fails.
RECURSIVE LoopAlone(_, _, _)
LoopAlone(s, e, i) ==
    IF LoopExit(HasFrame(e, i), s.frame_count)
    THEN LET trailing ==
                 /\ s.consecutive_below_threshold >= CONSECUTIVE_FRAMES
                 /\ s.blink_cooldown = 0
         IN  ReturnValue([s EXCEPT !.blink_count = IF trailing THEN @ + 1 ELSE @])
    ELSE LET p == ProcessFrame(s, FrameAt(e, i))
         IN  IF p.raised THEN ExceptionResult(p.locals)
             ELSE LoopAlone(p.locals, e, i + 1)

CountAlone(e) == LoopAlone(InitLocals, e, 1)

\* What belongs to the invocation c.
Own(c) ==
    <<pc[c], st[c], cap[c], result[c], err[c], log[c], decision[c],
      TempPath(c) \in temp_files>>

\* C8: a step of one invocation leaves everything of the other untouched,
\* and each invocation returns the count it returns when run alone.
C8_Isolation ==
    /\ [](\A c \in Calls :
            (pc[c] = "done" /\ err[c] \in {"none", "frame"})
                => result[c] = CountAlone(encoded_video[c]))
    /\ [][\A c \in Calls : last_call' # c => Own(c)' = Own(c)]_vars

\* C8's case: invocation 1 has counted a blink, returned it and deleted
\* its file while invocation 2 is in its frame loop, a frame processed, no
\* blink counted, its own file in place.
C8_Witness ==
    /\ pc[1] = "done" /\ err[1] = "none" /\ result[1] = 1
    /\ pc[2] = "loop" /\ cap[2].pos > 0 /\ st[2].blink_count = 0
    /\ temp_files = {TempPath(2)}

\* C9: calculate_ear_fast returns the fallback 0.3 whenever points 0 and 3
\* coincide, whatever the 4 lid points.
C9_Fallback ==
    (ear_out # -1 /\ euclidean(eye_in[1], eye_in[4]) = 0) => ear_out = 3000

\* C9's case: the corners coincide, the lids are apart, 0.3 was returned.
C9_Witness ==
    /\ ear_out = 3000
    /\ eye_in[1] = eye_in[4]
    /\ eye_in[2] # eye_in[6] /\ eye_in[3] # eye_in[5]

\* The ratio of section 4.1 of the specification, p1..p6 being the 6
\* points in order.
SpecRatio(p1, p2, p3, p4, p5, p6) ==
    ((euclidean(p2, p6) + euclidean(p3, p5)) * Fine) \div (2 * euclidean(p1, p4))

\* C10: when points 0 and 3 differ, calculate_ear_fast returns
\* (d(p2,p6) + d(p3,p5)) / (2 * d(p1,p4)), which is not negative.
C10_Ratio ==
    (ear_out # -1 /\ eye_in[1] # eye_in[4])
        => /\ ear_out = SpecRatio(eye_in[1], eye_in[2], eye_in[3],
                                  eye_in[4], eye_in[5], eye_in[6])
           /\ ear_out >= 0

\* C10's case: a ratio of an eye whose two lid distances differ.
C10_Witness ==
    /\ ear_out > 0
    /\ eye_in[1] # eye_in[4]
    /\ euclidean(eye_in[2], eye_in[6]) # euclidean(eye_in[3], eye_in[5])

\* The criteria that the values d of a frame satisfy, by their numbers.
Satisfied(d) ==
    {k \in 1..3 :
        /\ d.cooldown = 0
        /\ CASE k = 1 -> Below(d.avg_ear, d.dynamic_threshold)
             [] k = 2 -> d.ear_drop > SUDDEN_DROP_THRESHOLD
             [] OTHER -> Below(d.avg_ear, d.relative_threshold)}

ReasonOf(k) == CASE k = 1 -> "Dynamic" [] k = 2 -> "Sudden drop" [] OTHER -> "Relative"

LowestSatisfied(d) ==
    IF Satisfied(d) = {} THEN ""
    ELSE ReasonOf(CHOOSE k \in Satisfied(d) : \A j \in Satisfied(d) : k <= j)

\* A step that judged a frame with a face of the invocation c.
Judged(c) == decision'[c].frame # decision[c].frame

\* C11: the reason of every judged frame is that of the lowest-numbered
\* criterion its values satisfy, none when they satisfy none; a sample
\* below the dynamic threshold with the cooldown idle is flagged by
\* criterion 1 on its frame; the count grows by 0 or 1 in a step, by 1 on
\* a judged frame exactly when it has a reason, which the log records.
C11_FirstMatch ==
    /\ [](\A c \in Calls : decision[c].reason = LowestSatisfied(decision[c]))
    /\ [][\A c \in Calls :
            /\ st'[c].blink_count - st[c].blink_count \in {0, 1}
            /\ Judged(c) =>
                  IF decision'[c].reason = ""
                  THEN /\ st'[c].blink_count = st[c].blink_count
                       /\ log'[c] = log[c]
                  ELSE /\ st'[c].blink_count = st[c].blink_count + 1
                       /\ log'[c] = Append(log[c],
                              [frame |-> decision'[c].frame,
                               sample |-> Len(st'[c].ear_history),
                               reason |-> decision'[c].reason])]_vars

\* C11's case: a frame that satisfies the three criteria at once was
\* flagged by the first.
C11_Witness ==
    /\ Satisfied(decision[1]) = {1, 2, 3}
    /\ decision[1].reason = "Dynamic"

\* A video with one closure of n frames in a row after the baseline b.
Closure(b, n, t) == Scenario(b, 3, Repeat(1, n - 1), t)

\* C12: a run of 2 to 4 samples below the threshold in a row, with open
\* samples before and after it, adds exactly 1 to the count.
C12_RunCountsOnce ==
    \A b \in Baselines, n \in 2..4, t \in 1..MaxTail :
        Completed(Closure(b, n, t))
            => BlinksOn((WarmLen + 1)..(WarmLen + n + t)) = 1

\* C13: the cooldown counter is in 0..3 in every state; a judged frame
\* that finds it positive decrements it by exactly one before the
\* criteria; a frame on which it is still positive after that is not
\* flagged and leaves the counter at the decremented value.
C13_Cooldown ==
    /\ [](\A c \in Calls :
            st[c].blink_cooldown \in 0..3 /\ decision[c].cooldown \in 0..3)
    /\ [][\A c \in Calls :
            Judged(c) =>
                /\ st[c].blink_cooldown > 0
                      => decision'[c].cooldown = st[c].blink_cooldown - 1
                /\ st[c].blink_cooldown = 0 => decision'[c].cooldown = 0
                /\ decision'[c].cooldown > 0
                      => /\ decision'[c].reason = ""
                         /\ st'[c].blink_count = st[c].blink_count
                         /\ log'[c] = log[c]
                         /\ st'[c].blink_cooldown = decision'[c].cooldown]_vars

\* C13's case: the frame after a blink is below the dynamic threshold and
\* is not flagged, the cooldown being 2 after its decrement.
C13_Witness ==
    /\ decision[1].cooldown = 2
    /\ Below(decision[1].avg_ear, decision[1].dynamic_threshold)
    /\ decision[1].reason = ""
    /\ st[1].blink_count = 1

\* The thresholds the specification gives a history H: 0.80 times the
\* median of its last 15 samples, clamped to [0.22, 0.35], when it holds
\* more than 15 samples, and 0.32 otherwise; 0.78 times the mean of its
\* last 10 samples when it holds more than 10, and the former otherwise.
StatedDynamic(H) ==
    IF Len(H) > 15
    THEN Min(Max(Median2(LastN(H, 15)) * 4000, 2200 * Fine), 3500 * Fine)
    ELSE 3200 * Fine

StatedRelative(H) ==
    IF Len(H) > 10 THEN SumSeq(LastN(H, 10)) * 780 ELSE StatedDynamic(H)

\* The samples before the last one of a history.
Earlier(H) == SubSeq(H, 1, Len(H) - 1)

\* A frame with a face of the invocation c has been judged.
HasJudged(c) == decision[c].frame > 0

\* C14, as stated: the thresholds a sample e was judged with are those of
\* the history of the samples before e; e is in the history after the
\* decision and prev is e.
C14_ThresholdsOfEarlier ==
    \A c \in Calls :
        HasJudged(c) =>
            LET H == st[c].ear_history
            IN  /\ H # <<>> /\ H[Len(H)] = decision[c].avg_ear
                /\ st[c].last_ear = decision[c].avg_ear
                /\ decision[c].dynamic_threshold = StatedDynamic(Earlier(H))
                /\ decision[c].relative_threshold = StatedRelative(Earlier(H))

\* C14, amended: the thresholds a sample e was judged with are those of
\* the history that ends with e: the tests |H| > 15 and |H| > 10 count e
\* and the windows of the median and of the mean hold e as their last
\* sample; prev is e after the frame.
C14_ThresholdsOfAppended ==
    \A c \in Calls :
        HasJudged(c) =>
            LET H == st[c].ear_history
            IN  /\ H # <<>> /\ H[Len(H)] = decision[c].avg_ear
                /\ st[c].last_ear = decision[c].avg_ear
                /\ decision[c].dynamic_threshold = StatedDynamic(H)
                /\ decision[c].relative_threshold = StatedRelative(H)

\* C14's case: the 16th sample was judged with the median of a window
\* that holds it, where the 15 samples before it give the fixed 0.32.
C14_Witness ==
    /\ HasJudged(1)
    /\ Len(st[1].ear_history) = 16
    /\ decision[1].dynamic_threshold # 3200 * Fine
    /\ decision[1].dynamic_threshold # StatedDynamic(Earlier(st[1].ear_history))

\* The step of the invocation c after its last frame.
AfterLastFrame(c) == pc[c] = "final" /\ pc'[c] # "final"

\* C15: the step after the last frame adds exactly 1 to the count when the
\* consecutive-below counter is at least 1 and the cooldown counter is 0,
\* and leaves the count as it is otherwise; it changes nothing else of the
\* rolling state.
C15_EndOfStream ==
    [][\A c \in Calls :
          AfterLastFrame(c) =>
              /\ st'[c] = [st[c] EXCEPT !.blink_count = st'[c].blink_count]
              /\ st'[c].blink_count =
                     IF /\ st[c].consecutive_below_threshold >= 1
                        /\ st[c].blink_cooldown = 0
                     THEN st[c].blink_count + 1
                     ELSE st[c].blink_count]_vars

\* C15's case: the video ended on a closed eye, flagged on its frame; the
\* counter of consecutive samples is 1, the cooldown is not idle, and the
\* step after the last frame has left the count at 1.
C15_Witness ==
    /\ pc[1] = "cleanup"
    /\ st[1].consecutive_below_threshold >= 1
    /\ st[1].blink_cooldown > 0
    /\ decision[1].frame = st[1].frame_count
    /\ decision[1].reason = "Dynamic"
    /\ st[1].blink_count = 1

\* The frames of the invocation c flagged inside the loop.
FlaggedInLoop(c) == {i \in DOMAIN log[c] : log[c][i].reason # "Final"}

\* C16: in every state (initially and after every iteration of the loop)
\* a cooldown counter of 0 comes with a consecutive-below counter of 0; no
\* blink is ever flagged after the last frame, and a call that returns
\* without a failure returns the number of frames flagged inside the loop.
C16_IdleMeansReset ==
    \A c \in Calls :
        /\ st[c].blink_cooldown = 0 => st[c].consecutive_below_threshold = 0
        /\ \A i \in DOMAIN log[c] : log[c][i].reason # "Final"
        /\ st[c].blink_count = Cardinality(FlaggedInLoop(c))
        /\ (pc[c] = "done" /\ err[c] = "none")
              => result[c] = Cardinality(FlaggedInLoop(c))

\* C16's case: the call has returned 2 after a video that ends on samples
\* that are below no threshold, the cooldown counter back at 0.
C16_Witness ==
    /\ pc[1] = "done" /\ err[1] = "none"
    /\ result[1] = 2
    /\ st[1].blink_cooldown = 0
    /\ st[1].consecutive_below_threshold = 0
    /\ decision[1].frame = st[1].frame_count

\* The invocation c reads a frame within the budget that shows no face.
ReadsNoFace(c) ==
    /\ pc[c] = "loop"
    /\ cap'[c].pos = cap[c].pos + 1
    /\ st[c].frame_count < MAX_FRAMES
    /\ FrameAt(encoded_video[c], cap'[c].pos) = NoFace

\* C17: a frame without a face leaves the history, prev, the cooldown and
\* consecutive-below counters, the blink count and the face flag as they
\* were, flags nothing, and uses up one frame of the budget.
C17_NoFaceFrame ==
    [][\A c \in Calls :
          ReadsNoFace(c) =>
              /\ st'[c] = [st[c] EXCEPT !.frame_count = st[c].frame_count + 1]
              /\ decision'[c] = decision[c]
              /\ log'[c] = log[c]
              /\ pc'[c] = "loop"]_vars

\* C17's case: the frame after a flagged one showed no face; the cooldown
\* is still 3 and the history still holds one sample, two frames of the
\* budget being used.
C17_Witness ==
    /\ pc[1] = "loop"
    /\ cap[1].pos = 2
    /\ FrameAt(encoded_video[1], 2) = NoFace
    /\ st[1].frame_count = 2
    /\ st[1].blink_cooldown = 3
    /\ st[1].blink_count = 1
    /\ Len(st[1].ear_history) = 1

\* C18: the number of frames read from the decoder never exceeds
\* MAX_FRAMES, whatever the number of frames of the video.
C18_ReadsWithinCap == \A c \in Calls : cap[c].pos <= MAX_FRAMES

\* The invocation c leaves the frame loop.
LeavesLoop(c) == pc[c] = "loop" /\ pc'[c] = "final"

\* C19: every invocation ends; the frame loop never processes more than
\* MAX_FRAMES frames and is left only when the decoder has no frame left
\* or MAX_FRAMES frames are processed, on an endless stream too; once the
\* loop is left the call returns, and it returns the count or 0.
C19_Terminates ==
    /\ <>Ended(1)
    /\ [][\A c \in Calls :
            /\ st'[c].frame_count <= MAX_FRAMES
            /\ LeavesLoop(c) =>
                  \/ ~HasFrame(encoded_video[c], cap[c].pos + 1)
                  \/ st[c].frame_count = MAX_FRAMES]_vars
    /\ [](pc[1] \in {"final", "cleanup"}
            => <>(pc[1] = "done" /\ result[1] \in {0, st[1].blink_count}))

\* C19's case: the call on the endless stream has returned its count
\* after MAX_FRAMES frames.
C19_Witness ==
    /\ Endless(encoded_video[1])
    /\ pc[1] = "done" /\ err[1] = "none"
    /\ st[1].frame_count = MAX_FRAMES
    /\ result[1] = st[1].blink_count /\ result[1] > 0

\* 0.80 times the median of the last 15 samples of H, unclamped.
ScaledMedian(H) == Median2(LastN(H, 15)) * 4000

\* C20: on every judged frame the dynamic threshold is within
\* [0.22, 0.35]: 0.32 while the history (which holds the frame's sample)
\* has at most 15 samples, and after that 0.80 times the median of its
\* last 15 samples, raised to 0.22 or lowered to 0.35 when outside; the
\* relative threshold is the dynamic one while the history has at most 10
\* samples and 0.78 times the mean of its last 10 samples after that.
C20_Thresholds ==
    \A c \in Calls :
        HasJudged(c) =>
            LET H == st[c].ear_history
                dyn == decision[c].dynamic_threshold
                rel == decision[c].relative_threshold
            IN  /\ 2200 * Fine <= dyn /\ dyn <= 3500 * Fine
                /\ Len(H) <= 15 => dyn = 3200 * Fine
                /\ Len(H) > 15 =>
                      CASE ScaledMedian(H) < 2200 * Fine -> dyn = 2200 * Fine
                        [] ScaledMedian(H) > 3500 * Fine -> dyn = 3500 * Fine
                        [] OTHER -> dyn = ScaledMedian(H)
                /\ Len(H) <= 10 => rel = dyn
                /\ Len(H) > 10 => 10 * rel = SumSeq(LastN(H, 10)) * 7800

\* C20's case: a frame was judged with a dynamic threshold clamped to
\* 0.35, where 0.80 times the median is higher, and with a relative
\* threshold that is another value, the mean of the last 10 samples.
C20_Witness ==
    /\ HasJudged(1)
    /\ Len(st[1].ear_history) > 15
    /\ ScaledMedian(st[1].ear_history) > 3500 * Fine
    /\ decision[1].dynamic_threshold = 3500 * Fine
    /\ decision[1].relative_threshold > decision[1].dynamic_threshold

\* n / 3, rounded up.
CeilThird(n) == (n + 2) \div 3

\* C21: two frames on which a blink is flagged are at least 3 samples
\* (frames with a face) apart, and after n samples the count is at most
\* n / 3 rounded up.
C21_Spacing ==
    \A c \in Calls :
        /\ \A i \in DOMAIN log[c], j \in DOMAIN log[c] :
              i < j => log[c][j].sample - log[c][i].sample >= 3
        /\ st[c].blink_count <= CeilThird(Len(st[c].ear_history))

\* C21's case: closed eyes on 4 samples, with a frame without a face
\* among them; blinks on the samples 1 and 4, the most that 4 samples
\* allow.
C21_Witness ==
    /\ Len(st[1].ear_history) = 4
    /\ st[1].frame_count = 5
    /\ st[1].blink_count = 2
    /\ Len(log[1]) = 2
    /\ log[1][2].sample - log[1][1].sample = 3

\* The relative threshold of the last judged frame of the invocation c is
\* the fallback to the dynamic one: the history, which holds the frame's
\* sample, has at most 10 samples.
FallsBack(c) == HasJudged(c) /\ Len(st[c].ear_history) <= 10

\* C22: a frame judged while the relative threshold falls back to the
\* dynamic one is never flagged by criterion 3: the two thresholds are
\* equal, and a blink on such a frame is flagged by criterion 1 or 2.
C22_NoRelativeEarly ==
    \A c \in Calls :
        /\ FallsBack(c) =>
              /\ decision[c].relative_threshold = decision[c].dynamic_threshold
              /\ decision[c].reason \in {"", "Dynamic", "Sudden drop"}
        /\ \A i \in DOMAIN log[c] :
              log[c][i].sample <= 10 => log[c][i].reason \in {"Dynamic", "Sudden drop"}

\* C22's case: the second sample, at the dynamic threshold or above it
\* and 0.25 below the first, is flagged by criterion 2.
C22_Witness ==
    /\ FallsBack(1)
    /\ Len(st[1].ear_history) = 2
    /\ ~Below(decision[1].avg_ear, decision[1].relative_threshold)
    /\ decision[1].reason = "Sudden drop"

\* C24: a judged frame whose sample is at or above the dynamic and the
\* relative threshold leaves the consecutive-below counter at 0, whatever
\* the cooldown; no other step decreases the counter, a flagged frame
\* included.
C24_CounterReset ==
    [][\A c \in Calls :
          IF /\ Judged(c)
             /\ decision'[c].avg_ear * Fine >= decision'[c].dynamic_threshold
             /\ decision'[c].avg_ear * Fine >= decision'[c].relative_threshold
          THEN st'[c].consecutive_below_threshold = 0
          ELSE st'[c].consecutive_below_threshold
                   >= st[c].consecutive_below_threshold]_vars

\* C24's case: the sample after a flagged one is above the dynamic
\* threshold and below the relative one, the cooldown is running, and the
\* counter is still 1.
C24_Witness ==
    /\ HasJudged(1)
    /\ decision[1].frame = WarmLen + 2
    /\ ~Below(decision[1].avg_ear, decision[1].dynamic_threshold)
    /\ Below(decision[1].avg_ear, decision[1].relative_threshold)
    /\ decision[1].cooldown = 2
    /\ st[1].consecutive_below_threshold = 1

\* C25: when a call returns after it has created the temporary file, by
\* its normal end, for a stream that cannot be opened or after an exception
\* in the processing of a frame, the file is deleted and the capture it
\* opened is released.
C25_NoLeftovers ==
    \A c \in Calls :
        (pc[c] = "done" /\ err[c] \in {"none", "open", "frame"}) =>
            /\ TempPath(c) \notin temp_files
            /\ cap[c].opened => cap[c].released


\* The frames on which quick_test, and the batch engine on its first n
\* frames, flagged a blink.
FlaggedFrames(entries, n) ==
    {entries[i].frame : i \in {j \in 1..Len(entries) : entries[j].frame <= n}}

\* Every frame of the video shows one face and nothing raises on it.
OneFacePerFrame(e) ==
    /\ e.prefix = "none"
    /\ \A i \in 1..Len(e.frames) : e.frames[i].faces = 1 /\ e.frames[i].raises = "none"

\* The batch engine has ended without an error on the frames that the
\* webcam yields, and quick_test has processed some of them.
BothRan ==
    /\ pc[1] = "done" /\ err[1] = "none"
    /\ quick_pc \in {"loop", "release", "done"}
    /\ quick.frame_count > 0
    /\ OneFacePerFrame(webcam)

\* The drop of sample i of the video from the one before it (from the
\* initial last_ear for the first sample).
DropAt(e, i) ==
    (IF i = 1 THEN INITIAL_LAST_EAR ELSE AvgEar(e.frames[i - 1])) - AvgEar(e.frames[i])

\* C23 (as stated): on every sequence of at most 30 samples with one face
\* per frame, quick_test and the batch engine flag a blink on exactly the
\* same frames.
C23_SameFrames ==
    (BothRan /\ Len(webcam.frames) <= QUICK_WINDOW) =>
        FlaggedFrames(quick_log, quick.frame_count)
            = FlaggedFrames(log[1], quick.frame_count)

\* C23 (amended): on every sequence of at most 10 samples with one face per
\* frame and no drop between 0.04 (exclusive) and 0.05 (inclusive),
\* quick_test and the batch engine flag a blink on exactly the same frames,
\* and the history of quick_test never holds more than 30 samples.
C23_SameEarlyFrames ==
    /\ Len(quick.ear_history) <= QUICK_WINDOW
    /\ (/\ BothRan
        /\ Len(webcam.frames) <= QUICK_BASELINE_MIN
        /\ \A i \in 1..Len(webcam.frames) :
              ~(DropAt(webcam, i) > QUICK_DROP
                  /\ DropAt(webcam, i) <= SUDDEN_DROP_THRESHOLD))
        => FlaggedFrames(quick_log, quick.frame_count)
               = FlaggedFrames(log[1], quick.frame_count)

\* Both have run over 10 samples and flagged the same, more than one, frames.
C23_Witness ==
    /\ BothRan
    /\ quick_pc = "done"
    /\ quick.frame_count = QUICK_BASELINE_MIN
    /\ Len(webcam.frames) = QUICK_BASELINE_MIN
    /\ Len(quick_log) > 1
    /\ FlaggedFrames(quick_log, quick.frame_count)
           = FlaggedFrames(log[1], quick.frame_count)


====
